---------------------------- MODULE Spec2Model ----------------------------
(***************************************************************************)
(* A model of src/src/garnet.py (GarNet): the per-chromosome interval      *)
(* intersection (intersection_of_dict_of_intervaltree over IntervalTree    *)
(* indexes), the peak/gene relationship classifier (type_of_peak), and the *)
(* two public entry points map_peaks and TF_regression.                    *)
(*                                                                         *)
(* A Python call either returns a value or raises; every modelled call is  *)
(* an outcome record [raised |-> <exception name or "none">, value |-> v]. *)
(* IntervalTree is the intervaltree package the module imports (line 18);  *)
(* the code calls IntervalTree.from_tuples and IntervalTree.search, the    *)
(* API of intervaltree 2.x, whose intervals are half-open [begin, end).    *)
(***************************************************************************)
EXTENDS Integers, Sequences, FiniteSets, Bags, TLC

VARIABLES
    pc,            \* position of the modelled call: see Spec
    peaks,         \* SpecSearch: one chromosome's peaks dataframe (sequence of rows)
    query,         \* SpecSearch: the interval handed to IntervalTree.search
    tree,          \* SpecSearch: outcome of IntervalTree_from_peaks(peaks)
    found,         \* SpecSearch: the set IntervalTree.search returned
    A,             \* SpecIntersect: dict chrom -> IntervalTree (first argument)
    B,             \* SpecIntersect: dict chrom -> IntervalTree (second argument)
    intersection,  \* SpecIntersect: outcome of intersection_of_dict_of_intervaltree
    row,           \* SpecClassify: the row handed to type_of_peak
    label,         \* SpecClassify: outcome of type_of_peak(row)
    mp_args,       \* SpecMapPeaks: the arguments of map_peaks
    mp_result,     \* SpecMapPeaks: outcome of map_peaks
    tf_args,       \* SpecRegression: the arguments of TF_regression
    tf_result      \* SpecRegression: outcome of TF_regression

vars == <<pc, peaks, query, tree, found, A, B, intersection, row, label,
          mp_args, mp_result, tf_args, tf_result>>

\* Python's None, and the value of a variable a specification does not use.
None == "None"

\* An outcome of a call: a normal return, or an exception.
Return(v) == [raised |-> "none", value |-> v]
Raise(e) == [raised |-> e, value |-> None]

Chroms == {"chr1", "chr2"}

-----------------------------------------------------------------------------
(***************************************************************************)
(* IntervalTree (intervaltree 2.x): a set of Interval(begin, end, data).   *)
(* Interval equality compares begin, end and data, so a tree holds each    *)
(* (begin, end, data) triple once.                                         *)
(***************************************************************************)

Interval(begin, end, data) == [begin |-> begin, end |-> end, data |-> data]

\* Interval.is_null
is_null(iv) == iv.begin >= iv.end

\* The begin and end coordinates of the stored intervals (boundary_table keys).
boundary_table(t) == {iv.begin : iv \in t} \cup {iv.end : iv \in t}

\* The stored intervals that contain point p: begin <= p < end.
search_point(t, p) == {iv \in t : iv.begin <= p /\ p < iv.end}

\* A deviation of search: the end boundary is included (bisect_right for bisect_left).
search_end_inclusive(t, begin, end) ==
    IF t = {} THEN {}
    ELSE IF begin >= end THEN {}
    ELSE search_point(t, begin) \cup
         UNION {search_point(t, p) :
                  p \in {q \in boundary_table(t) : begin <= q /\ q <= end}}

\* IntervalTree.search(begin, end): the intervals containing begin, and those
\* containing a boundary point q with begin <= q < end.
search(t, begin, end) ==
    IF t = {} THEN {}
    ELSE IF begin >= end THEN {}
    ELSE search_point(t, begin) \cup
         UNION {search_point(t, p) :
                  p \in {q \in boundary_table(t) : begin <= q /\ q < end}}

\* IntervalTree_from_peaks(peaks): zip(peakStart, peakEnd, row dicts) handed to
\* IntervalTree.from_tuples, which builds the set of Intervals and raises
\* ValueError when one of them is null.
IntervalTree_from_peaks(df) ==
    LET intervals == {Interval(df[i].peakStart, df[i].peakEnd, df[i]) : i \in DOMAIN df}
    IN  IF \E iv \in intervals : is_null(iv) THEN Raise("ValueError")
        ELSE Return(intervals)

-----------------------------------------------------------------------------
(***************************************************************************)
(* intersection_of_dict_of_intervaltree(A, B)                              *)
(***************************************************************************)

\* A deviation of common_keys: the union of the key sets.
common_keys_union(a, b) == DOMAIN a \cup DOMAIN b

\* common_keys = set(A.keys()).intersection(set(B.keys()))
common_keys(a, b) == DOMAIN a \cap DOMAIN b

\* One element per iteration of the comprehension
\*   for key in common_keys for a in A[key] for b in B[key].search(a)
comprehension(a, b, keys) ==
    UNION {UNION {{<<key, x, y>> : y \in search(b[key], x.begin, x.end)}
                    : x \in a[key]} : key \in keys}

\* A deviation of pairs_of: the pairs are collected into a set (each pair once).
pairs_of_dedup(its) ==
    LET prs == {<<t[2].data, t[3].data>> : t \in its}
    IN  [pr \in prs |-> 1]

\* The list the comprehension builds, as a bag (the iteration order of a set of
\* keys and of a tree is unspecified): one (a.data, b.data) per iteration.
pairs_of(its) ==
    LET prs == {<<t[2].data, t[3].data>> : t \in its}
    IN  [pr \in prs |-> Cardinality({t \in its : <<t[2].data, t[3].data>> = pr})]

\* A[key] or B[key] of a key the dict lacks raises KeyError.
intersection_of_dict_of_intervaltree(a, b) ==
    LET keys == common_keys(a, b)
    IN  IF \E key \in keys : key \notin DOMAIN a \/ key \notin DOMAIN b
        THEN Raise("KeyError")
        ELSE Return(pairs_of(comprehension(a, b, keys)))

-----------------------------------------------------------------------------
(***************************************************************************)
(* type_of_peak(row)                                                       *)
(***************************************************************************)

\* The 2kb distance the classifier compares against (the literals 2000, -2000).
Threshold == 2000

\* A deviation of type_of_peak: the upstream comparisons are strict.
type_of_peak_strict(r) ==
    IF r.geneStrand = "+" THEN
        LET d == r.peakStart - r.geneStart
        IN  IF -Threshold > d THEN Return("upstream")
            ELSE IF -Threshold < d /\ d < 0 THEN Return("promoter")
            ELSE IF 0 <= d THEN Return("downstream")
            ELSE Return("intergenic")
    ELSE IF r.geneStrand = "-" THEN
        LET d == r.peakEnd - r.geneEnd
        IN  IF Threshold < d THEN Return("upstream")
            ELSE IF Threshold > d /\ d > 0 THEN Return("promoter")
            ELSE IF 0 >= d THEN Return("downstream")
            ELSE Return("intergenic")
    ELSE Return(None)

\* The function has no branch for a strand other than '+' and '-': control
\* reaches its end and Python returns None.
type_of_peak(r) ==
    IF r.geneStrand = "+" THEN
        LET d == r.peakStart - r.geneStart
        IN  IF -Threshold >= d THEN Return("upstream")
            ELSE IF -Threshold < d /\ d < 0 THEN Return("promoter")
            ELSE IF 0 <= d THEN Return("downstream")
            ELSE Return("intergenic")
    ELSE IF r.geneStrand = "-" THEN
        LET d == r.peakEnd - r.geneEnd
        IN  IF Threshold <= d THEN Return("upstream")
            ELSE IF Threshold > d /\ d > 0 THEN Return("promoter")
            ELSE IF 0 >= d THEN Return("downstream")
            ELSE Return("intergenic")
    ELSE Return(None)

-----------------------------------------------------------------------------
(***************************************************************************)
(* map_peaks(garnet_file, peaks_file_or_list_of_peaks_files)               *)
(*                                                                         *)
(* A garnet file is [loadable, genome]: whether the pickle loads, and the  *)
(* dict chrom -> IntervalTree it holds.  A peaks file is the sequence of   *)
(* rows it parses to.  The second argument is [kind |-> "str", file |-> f] *)
(* (one filepath) or [kind |-> "list", files |-> <<f1, ..., fn>>].         *)
(***************************************************************************)

\* parse_garnet_file: sys.exit when the pickle does not load.
parse_garnet_file(garnet_file) ==
    IF garnet_file.loadable THEN Return(garnet_file.genome) ELSE Raise("SystemExit")

\* parse_peaks_file(peaks_file), called at line 244: the module defines no such
\* name (it defines parse_peaks_bed_file), so the call raises NameError.
parse_peaks_file(peaks_file) == Raise("NameError")

\* group_by_chromosome: dict(list(dataframe.groupby('chrom'))).
group_by_chromosome(df) ==
    [c \in {df[i].chrom : i \in DOMAIN df} |->
        SelectSeq(df, LAMBDA r : r.chrom = c)]

\* The name output_dir read at line 249 is neither a parameter nor a global.
output_dir == Raise("NameError")

\* dict_of_IntervalTree_from_peak_file(peaks_file)
dict_of_IntervalTree_from_peak_file(peaks_file) ==
    LET parsed == parse_peaks_file(peaks_file)
    IN  IF parsed.raised # "none" THEN Raise(parsed.raised)
        ELSE
        LET grouped == group_by_chromosome(parsed.value)
            trees == [c \in DOMAIN grouped |-> IntervalTree_from_peaks(grouped[c])]
        IN  IF \E c \in DOMAIN trees : trees[c].raised # "none"
            THEN Raise("ValueError")
            ELSE IF output_dir.raised # "none" THEN Raise(output_dir.raised)
            ELSE Return([c \in DOMAIN trees |-> trees[c].value])

\* Line 157: each element of the intersection is a 2-tuple (peak data, genome
\* data); the comprehension unpacks it into three names (peak, genes, motifs),
\* which raises ValueError on the first element.  An empty list gives no rows.
motifs_and_genes(pairs) ==
    IF pairs = EmptyBag THEN Return(<<>>) ELSE Raise("ValueError")

\* The body of the loop `for peaks_file in peaks_files`, appending to output.
RECURSIVE map_peaks_loop(_, _, _)
map_peaks_loop(genome, peaks_files, output) ==
    IF peaks_files = <<>> THEN Return(output)
    ELSE
    LET trees == dict_of_IntervalTree_from_peak_file(Head(peaks_files))
    IN  IF trees.raised # "none" THEN Raise(trees.raised)
        ELSE
        LET joined == intersection_of_dict_of_intervaltree(trees.value, genome)
        IN  IF joined.raised # "none" THEN Raise(joined.raised)
            ELSE
            LET frame == motifs_and_genes(joined.value)
            IN  IF frame.raised # "none" THEN Raise(frame.raised)
                ELSE map_peaks_loop(genome, Tail(peaks_files),
                                    Append(output, frame.value))

\* GarNetDB.close() at line 166: the module defines no name GarNetDB.
GarNetDB_close == Raise("NameError")

map_peaks(garnet_file, peaks_file_or_list_of_peaks_files) ==
    LET genome == parse_garnet_file(garnet_file)
    IN  IF genome.raised # "none" THEN Raise(genome.raised)
        ELSE
        LET peaks_files ==
                IF peaks_file_or_list_of_peaks_files.kind = "str"
                THEN <<peaks_file_or_list_of_peaks_files.file>>
                ELSE peaks_file_or_list_of_peaks_files.files
            output == map_peaks_loop(genome.value, peaks_files, <<>>)
        IN  IF output.raised # "none" THEN Raise(output.raised)
            ELSE IF GarNetDB_close.raised # "none" THEN Raise(GarNetDB_close.raised)
            ELSE IF Len(output.value) = 1 THEN Return(output.value[1])
            ELSE Return(output.value)

-----------------------------------------------------------------------------
(***************************************************************************)
(* TF_regression(motifs_and_genes_dataframe, expression_file, options)     *)
(*                                                                         *)
(* A dataframe is the sequence of its rows.  The ordinary-least-squares    *)
(* fit is statsmodels'; whether the fit of a factor's profile raises is an *)
(* input of the model (fit[name] is "ok" or "raise"), and the slope and    *)
(* p-value of a successful fit are the symbolic values <<"slope", name>>   *)
(* and <<"pvalue", name>>.  options carries no output_dir: the plots and   *)
(* the html summary are files, not part of the returned value.             *)
(***************************************************************************)

\* The fewest observations a factor's profile needs (line 209).
MinObservations == 5

\* The factor names, in the sorted order in which groupby yields its groups.
TFs == <<"TF1", "TF2">>

\* parse_expression_file(expression_file), called at line 192: the module
\* defines no such name (it defines parse_tabular_expression_file), so the
\* call raises NameError.
parse_expression_file(expression_file) == Raise("NameError")

\* The rows of `right` whose name is the geneSymbol of left row l, each joined to l.
RECURSIVE merge_row(_, _)
merge_row(l, right) ==
    IF right = <<>> THEN <<>>
    ELSE (IF Head(right).name = l.geneSymbol
          THEN <<[geneName |-> l.geneName, geneSymbol |-> l.geneSymbol,
                  motifID |-> l.motifID, motifName |-> l.motifName,
                  motifScore |-> l.motifScore, name |-> Head(right).name,
                  expression |-> Head(right).expression]>>
          ELSE <<>>) \o merge_row(l, Tail(right))

\* left.merge(right, left_on='geneSymbol', right_on='name', how='inner')
RECURSIVE merge(_, _)
merge(left, right) ==
    IF left = <<>> THEN <<>>
    ELSE merge_row(Head(left), right) \o merge(Tail(left), right)

\* df.drop_duplicates(subset=['geneSymbol', 'motifID']): of the rows equal on
\* both columns the first is kept.
RECURSIVE drop_duplicates(_)
drop_duplicates(df) ==
    IF df = <<>> THEN <<>>
    ELSE LET n == Len(df)
             last == df[n]
             front == SubSeq(df, 1, n - 1)
         IN  IF \E j \in 1..(n - 1) : /\ df[j].geneSymbol = last.geneSymbol
                                      /\ df[j].motifID = last.motifID
             THEN drop_duplicates(front)
             ELSE Append(drop_duplicates(front), last)

\* list(df.groupby('motifName')): one (name, rows of that name) per name present.
groupby_motifName(df) ==
    LET present == SelectSeq(TFs, LAMBDA t : \E i \in DOMAIN df : df[i].motifName = t)
    IN  [k \in DOMAIN present |->
            [name |-> present[k],
             profile |-> SelectSeq(df, LAMBDA r : r.motifName = present[k])]]

\* What a call leaves behind: the outcome, and the profiles handed to the fit.
Outcome(raised, value, fits) == [raised |-> raised, value |-> value, fits |-> fits]

\* The loop over the groups (lines 206-219): a group of fewer than
\* MinObservations rows is skipped; the fit of any other group either raises,
\* which nothing in the loop catches, or appends (name, slope, p-value).
RECURSIVE regression_loop(_, _, _, _)
regression_loop(groups, fit, imputed_TF_features, fits) ==
    IF groups = <<>> THEN Outcome("none", imputed_TF_features, fits)
    ELSE
    LET TF_name == Head(groups).name
        expression_profile == Head(groups).profile
    IN  IF Len(expression_profile) < MinObservations
        THEN regression_loop(Tail(groups), fit, imputed_TF_features, fits)
        ELSE IF fit[TF_name] = "raise"
        THEN Outcome("FitError", None, Append(fits, Head(groups)))
        ELSE regression_loop(Tail(groups), fit,
                 Append(imputed_TF_features,
                        <<TF_name, <<"slope", TF_name>>, <<"pvalue", TF_name>>>>),
                 Append(fits, Head(groups)))

\* What lines 194-202 make of the dataframe and a parsed expression table.
\* Every merged row has a geneSymbol column, so line 198's test is true; the
\* motifScore values are numbers, which astype(float) keeps.
expression_profiles(df, expression_dataframe) ==
    groupby_motifName(drop_duplicates(merge(df, expression_dataframe)))

\* Line 229 returns imputed_TF_features_dataframes; the local assigned at line
\* 221 is imputed_TF_features_dataframe, so the return raises NameError.
TF_regression(args) ==
    LET expression_dataframe == parse_expression_file(args.expression_file)
    IN  IF expression_dataframe.raised # "none"
        THEN Outcome(expression_dataframe.raised, None, <<>>)
        ELSE
        LET looped == regression_loop(
                          expression_profiles(args.df, expression_dataframe.value),
                          args.fit, <<>>, <<>>)
        IN  IF looped.raised # "none" THEN looped
            ELSE Outcome("NameError", None, looped.fits)

-----------------------------------------------------------------------------
(***************************************************************************)
(* Inputs                                                                  *)
(***************************************************************************)

\* The sequences over S of length at most n.
SeqsUpTo(S, n) == UNION {[1..k -> S] : k \in 0..n}

\* The subsets of S of at most n elements.
RECURSIVE SubsetsUpTo(_, _)
SubsetsUpTo(S, n) ==
    IF n = 0 THEN {{}}
    ELSE LET smaller == SubsetsUpTo(S, n - 1)
         IN  smaller \cup {T \cup {x} : T \in smaller, x \in S}

\* SpecSearch: coordinates 0..MaxPeakCoord, at most MaxPeakRows rows.
MaxPeakCoord == 3
MaxPeakRows == 2

\* The rows of one chromosome's peaks dataframe (start <= end).
PeakRows ==
    {r \in {[chrom |-> "chr1", peakStart |-> s, peakEnd |-> e, peakName |-> n] :
                s \in 0..MaxPeakCoord, e \in 0..MaxPeakCoord, n \in {"p", "q"}} :
        r.peakStart <= r.peakEnd}

\* The intervals a search is called with: intervals stored in another tree.
Queries ==
    {iv \in {Interval(s, e, None) : s \in 0..MaxPeakCoord, e \in 0..MaxPeakCoord} :
        ~is_null(iv)}

\* SpecIntersect: coordinates 0..MaxCoord, at most MaxIntervals intervals an index.
MaxCoord == 2
MaxIntervals == 2

\* The intervals an index may hold under a chromosome, with payload names `names`.
StoredIntervals(names) ==
    {iv \in {Interval(s, e, [chrom |-> c, name |-> n]) :
                s \in 0..MaxCoord, e \in 0..MaxCoord, c \in Chroms, n \in names} :
        ~is_null(iv)}

\* The dict chrom -> IntervalTree that indexes the intervals ivs by data.chrom.
IndexOf(ivs) ==
    [c \in {iv.data.chrom : iv \in ivs} |-> {iv \in ivs : iv.data.chrom = c}]

Indexes(names) == {IndexOf(ivs) : ivs \in SubsetsUpTo(StoredIntervals(names), MaxIntervals)}

\* SpecClassify: distances within Margin beyond the threshold, lengths 1..MaxLen.
Margin == 2
MaxLen == 2

ClassifierRows ==
    {[peakStart |-> s, peakEnd |-> s + lp,
      geneStart |-> Threshold + Margin, geneEnd |-> Threshold + Margin + lg,
      geneStrand |-> st] :
        s \in 0..(2 * (Threshold + Margin)), lp \in 1..MaxLen, lg \in 1..MaxLen,
        st \in {"+", "-", "."}}

-----------------------------------------------------------------------------
(***************************************************************************)
(* SpecSearch: IntervalTree_from_peaks, then one IntervalTree.search       *)
(***************************************************************************)

InitSearch ==
    /\ pc = "parsed"
    /\ peaks \in SeqsUpTo(PeakRows, MaxPeakRows)
    /\ query \in Queries
    /\ tree = None /\ found = None
    /\ A = None /\ B = None /\ intersection = None
    /\ row = None /\ label = None
    /\ mp_args = None /\ mp_result = None
    /\ tf_args = None /\ tf_result = None

Build ==
    /\ pc = "parsed"
    /\ tree' = IntervalTree_from_peaks(peaks)
    /\ pc' = IF tree'.raised = "none" THEN "built" ELSE "raised"
    /\ UNCHANGED <<peaks, query, found, A, B, intersection, row, label,
                   mp_args, mp_result, tf_args, tf_result>>

Search ==
    /\ pc = "built"
    /\ found' = search(tree.value, query.begin, query.end)
    /\ pc' = "searched"
    /\ UNCHANGED <<peaks, query, tree, A, B, intersection, row, label,
                   mp_args, mp_result, tf_args, tf_result>>

NextSearch == Build \/ Search

SpecSearch == InitSearch /\ [][NextSearch]_vars

-----------------------------------------------------------------------------
(***************************************************************************)
(* SpecIntersect: one call of intersection_of_dict_of_intervaltree         *)
(***************************************************************************)

InitIntersect ==
    /\ pc = "intersect"
    /\ A \in Indexes({"a", "b"})
    /\ B \in Indexes({"g"})
    /\ intersection = None
    /\ peaks = None /\ query = None /\ tree = None /\ found = None
    /\ row = None /\ label = None
    /\ mp_args = None /\ mp_result = None
    /\ tf_args = None /\ tf_result = None

Intersect ==
    /\ pc = "intersect"
    /\ intersection' = intersection_of_dict_of_intervaltree(A, B)
    /\ pc' = "intersected"
    /\ UNCHANGED <<peaks, query, tree, found, A, B, row, label,
                   mp_args, mp_result, tf_args, tf_result>>

NextIntersect == Intersect

SpecIntersect == InitIntersect /\ [][NextIntersect]_vars

-----------------------------------------------------------------------------
(***************************************************************************)
(* SpecClassify: one call of type_of_peak                                  *)
(***************************************************************************)

InitClassify ==
    /\ pc = "classify"
    /\ row \in ClassifierRows
    /\ label = None
    /\ peaks = None /\ query = None /\ tree = None /\ found = None
    /\ A = None /\ B = None /\ intersection = None
    /\ mp_args = None /\ mp_result = None
    /\ tf_args = None /\ tf_result = None

Classify ==
    /\ pc = "classify"
    /\ label' = type_of_peak(row)
    /\ pc' = "classified"
    /\ UNCHANGED <<peaks, query, tree, found, A, B, intersection, row,
                   mp_args, mp_result, tf_args, tf_result>>

NextClassify == Classify

SpecClassify == InitClassify /\ [][NextClassify]_vars

-----------------------------------------------------------------------------
(***************************************************************************)
(* SpecMapPeaks: one call of map_peaks                                     *)
(***************************************************************************)

\* At most MaxPeaksPerFile rows a peaks file, at most MaxFiles files a list.
MaxPeaksPerFile == 2
MaxFiles == 2

\* The gene and motif intervals a genome index is drawn from.
GenomeCatalogue ==
    {Interval(0, 4, [chrom |-> "chr1", kind |-> "gene", name |-> "G1"]),
     Interval(2, 6, [chrom |-> "chr1", kind |-> "gene", name |-> "G2"]),
     Interval(1, 3, [chrom |-> "chr1", kind |-> "motif", name |-> "M1"]),
     Interval(2, 4, [chrom |-> "chr1", kind |-> "motif", name |-> "M2"]),
     Interval(3, 5, [chrom |-> "chr1", kind |-> "motif", name |-> "M3"])}

\* The rows a peaks file is drawn from.
PeakFileRows ==
    {[chrom |-> "chr1", peakStart |-> 2, peakEnd |-> 4, peakName |-> "pk1"],
     [chrom |-> "chr1", peakStart |-> 5, peakEnd |-> 6, peakName |-> "pk2"],
     [chrom |-> "chr2", peakStart |-> 2, peakEnd |-> 4, peakName |-> "pk3"]}

PeaksFiles == SeqsUpTo(PeakFileRows, MaxPeaksPerFile)

PeaksArguments ==
    {[kind |-> "str", file |-> f, files |-> None] : f \in PeaksFiles}
    \cup {[kind |-> "list", file |-> None, files |-> fs] :
            fs \in SeqsUpTo(PeaksFiles, MaxFiles)}

InitMapPeaks ==
    /\ pc = "map_peaks"
    /\ mp_args \in [garnet_file : [loadable : BOOLEAN,
                                   genome : {IndexOf(ivs) : ivs \in SUBSET GenomeCatalogue}],
                    peaks : PeaksArguments]
    /\ mp_result = None
    /\ peaks = None /\ query = None /\ tree = None /\ found = None
    /\ A = None /\ B = None /\ intersection = None
    /\ row = None /\ label = None
    /\ tf_args = None /\ tf_result = None

MapPeaks ==
    /\ pc = "map_peaks"
    /\ mp_result' = map_peaks(mp_args.garnet_file, mp_args.peaks)
    /\ pc' = "mapped"
    /\ UNCHANGED <<peaks, query, tree, found, A, B, intersection, row, label,
                   mp_args, tf_args, tf_result>>

NextMapPeaks == MapPeaks

SpecMapPeaks == InitMapPeaks /\ [][NextMapPeaks]_vars

-----------------------------------------------------------------------------
(***************************************************************************)
(* SpecRegression: one call of TF_regression                               *)
(***************************************************************************)

\* Genes 1..MaxGenes; a factor's motif is found near the first n of them.
MaxGenes == 5

TFNames == {TFs[k] : k \in DOMAIN TFs}

\* A row of the motifs-and-genes dataframe: gene g under its alias-th name,
\* near the motif of factor t.
MotifGeneRow(t, g, alias) ==
    [geneName |-> <<"name", g, alias>>, geneSymbol |-> g,
     motifID |-> <<"motif", t>>, motifName |-> t, motifScore |-> g]

\* The rows of factor t: genes 1..n, gene 1 under a second name too when aliased.
RowsOfFactor(t, n, aliased) ==
    [g \in 1..n |-> MotifGeneRow(t, g, 1)]
    \o (IF aliased /\ n >= 1 THEN <<MotifGeneRow(t, 1, 2)>> ELSE <<>>)

\* The parsed expression file: one (name, expression) row per gene first..MaxGenes.
ExpressionRows(first) ==
    [k \in 1..(MaxGenes - first + 1) |->
        [name |-> k + first - 1, expression |-> k + first - 1]]

InitRegression ==
    /\ pc = "regress"
    /\ \E n \in [TFNames -> 0..MaxGenes], aliased \in [TFNames -> BOOLEAN],
          first \in 1..2, fit \in [TFNames -> {"ok", "raise"}] :
          tf_args = [df |-> RowsOfFactor(TFs[1], n[TFs[1]], aliased[TFs[1]])
                            \o RowsOfFactor(TFs[2], n[TFs[2]], aliased[TFs[2]]),
                     expression_file |-> ExpressionRows(first),
                     fit |-> fit]
    /\ tf_result = None
    /\ peaks = None /\ query = None /\ tree = None /\ found = None
    /\ A = None /\ B = None /\ intersection = None
    /\ row = None /\ label = None
    /\ mp_args = None /\ mp_result = None

Regress ==
    /\ pc = "regress"
    /\ tf_result' = TF_regression(tf_args)
    /\ pc' = "regressed"
    /\ UNCHANGED <<peaks, query, tree, found, A, B, intersection, row, label,
                   mp_args, mp_result, tf_args>>

NextRegression == Regress

SpecRegression == InitRegression /\ [][NextRegression]_vars

-----------------------------------------------------------------------------
(***************************************************************************)
(* Spec: any one of the calls above.  pc tells them apart: "parsed",       *)
(* "built", "raised", "searched" (SpecSearch); "intersect", "intersected"; *)
(* "classify", "classified"; "map_peaks", "mapped"; "regress",             *)
(* "regressed".                                                            *)
(***************************************************************************)

Init == InitSearch \/ InitIntersect \/ InitClassify \/ InitMapPeaks \/ InitRegression

Next == Build \/ Search \/ Intersect \/ Classify \/ MapPeaks \/ Regress

Spec == Init /\ [][Next]_vars

-----------------------------------------------------------------------------
(***************************************************************************)
(* Properties of intersection_of_dict_of_intervaltree (SpecIntersect)      *)
(***************************************************************************)

\* Two half-open ranges [begin, end) share a coordinate.
Overlaps(x, y) == x.begin < y.end /\ y.begin < x.end

\* The chromosomes two indexes share.
SharedChroms == {c \in Chroms : c \in DOMAIN A /\ c \in DOMAIN B}

\* Every (chromosome, interval of A, interval of B) of stored intervals that
\* are indexed under the same chromosome and overlap.
StoredOverlaps ==
    UNION {{t \in {c} \X A[c] \X B[c] : Overlaps(t[2], t[3])} : c \in SharedChroms}

\* The payloads stored in an index.
DataOf(index) == UNION {{iv.data : iv \in index[c]} : c \in DOMAIN index}

\* C2: the result holds exactly one (a.payload, b.payload) pair for every
\* stored interval a of A and stored interval b of B that are indexed under the
\* same chromosome and whose ranges overlap, and no other pair; equal pairs
\* that come from different stored intervals are each kept.
C2_OnePairPerOverlap ==
    pc = "intersected" =>
        /\ intersection.raised = "none"
        /\ \A pr \in (DataOf(A) \X DataOf(B)) \cup BagToSet(intersection.value) :
              CopiesIn(pr, intersection.value) =
                  Cardinality({t \in StoredOverlaps :
                                  t[2].data = pr[1] /\ t[3].data = pr[2]})

\* A holds two intervals of identical range under one chromosome, each of
\* which contributes its own pairs, and some pair occurs twice in the result
\* because two stored intervals with equal payloads both overlap.
C2_Witness ==
    /\ pc = "intersected"
    /\ intersection.raised = "none"
    /\ \E c \in DOMAIN A : \E x \in A[c], y \in A[c] :
          /\ x # y /\ x.begin = y.begin /\ x.end = y.end
          /\ \E z \in DataOf(B) :
                /\ <<x.data, z>> \in BagToSet(intersection.value)
                /\ <<y.data, z>> \in BagToSet(intersection.value)
    /\ \E pr \in BagToSet(intersection.value) : CopiesIn(pr, intersection.value) >= 2

\* C4: when the two indexes share no chromosome (either may be empty) the
\* result is empty and nothing is raised; in every case no result pair holds
\* the payload of an interval whose chromosome the other index lacks.
C4_ChromosomeIsolation ==
    pc = "intersected" =>
        /\ intersection.raised = "none"
        /\ (DOMAIN A \cap DOMAIN B = {} => intersection.value = EmptyBag)
        /\ \A pr \in BagToSet(intersection.value) :
              pr[1].chrom \in DOMAIN B /\ pr[2].chrom \in DOMAIN A

\* Both indexes hold intervals, with overlapping ranges, yet under different
\* chromosomes only; the call returned.
C4_Witness ==
    /\ pc = "intersected"
    /\ DOMAIN A # {} /\ DOMAIN B # {}
    /\ DOMAIN A \cap DOMAIN B = {}
    /\ \E ca \in DOMAIN A, cb \in DOMAIN B :
          \E x \in A[ca], y \in B[cb] : Overlaps(x, y)
    /\ intersection = Return(EmptyBag)

-----------------------------------------------------------------------------
(***************************************************************************)
(* Properties of the overlap query (SpecSearch)                            *)
(***************************************************************************)

\* The rows of the dataframe whose interval is null (start >= end).
NullRows == {i \in DOMAIN peaks : peaks[i].peakStart >= peaks[i].peakEnd}

\* C3 as amended: the ranges are half-open.  Building a tree from rows raises
\* ValueError exactly when some row has start >= end, so no stored or queried
\* interval has start = end; a query [start, end) returns exactly the stored
\* intervals [s2, e2) with s2 < end and start < e2, hence none that shares
\* only an endpoint coordinate with the query.
C3_HalfOpenOverlap ==
    /\ pc = "raised" => tree = Raise("ValueError") /\ NullRows # {}
    /\ pc \in {"built", "searched"} =>
          /\ NullRows = {}
          /\ tree.raised = "none"
          /\ {iv.data : iv \in tree.value} = {peaks[i] : i \in DOMAIN peaks}
          /\ \A iv \in tree.value :
                iv.begin = iv.data.peakStart /\ iv.end = iv.data.peakEnd
    /\ pc = "searched" =>
          found = {iv \in tree.value :
                     iv.begin < query.end /\ query.begin < iv.end}

\* A search returned some stored interval and left out a stored interval that
\* touches the query at an endpoint.
C3_Witness ==
    /\ pc = "searched"
    /\ found # {}
    /\ \E iv \in tree.value :
          /\ iv.end = query.begin \/ iv.begin = query.end
          /\ iv \notin found

\* C3 as stated: endpoints are inclusive, so a query [start, end] returns
\* every stored interval [s2, e2] with s2 <= end and start <= e2, one that
\* shares only an endpoint coordinate with the query included.
C3_InclusiveOverlap ==
    pc = "searched" =>
        \A iv \in tree.value :
            (iv.begin <= query.end /\ query.begin <= iv.end) => iv \in found

-----------------------------------------------------------------------------
(***************************************************************************)
(* Properties of type_of_peak (SpecClassify)                               *)
(***************************************************************************)

\* C5: for strand '+' with d = peakStart - geneStart, d <= -2000 is upstream,
\* -2000 < d < 0 is promoter, d >= 0 is downstream; for strand '-' with
\* d = peakEnd - geneEnd, d >= 2000 is upstream, 0 < d < 2000 is promoter,
\* d <= 0 is downstream; 'intergenic' is never returned.
C5_ClassifierThresholds ==
    pc = "classified" =>
        /\ label.value # "intergenic"
        /\ row.geneStrand = "+" =>
              LET d == row.peakStart - row.geneStart
              IN  /\ label.raised = "none"
                  /\ d <= -2000 => label.value = "upstream"
                  /\ (-2000 < d /\ d < 0) => label.value = "promoter"
                  /\ d >= 0 => label.value = "downstream"
        /\ row.geneStrand = "-" =>
              LET d == row.peakEnd - row.geneEnd
              IN  /\ label.raised = "none"
                  /\ d >= 2000 => label.value = "upstream"
                  /\ (0 < d /\ d < 2000) => label.value = "promoter"
                  /\ d <= 0 => label.value = "downstream"

\* The boundary d = -2000 on strand '+' was classified, as upstream.
C5_Witness ==
    /\ pc = "classified"
    /\ row.geneStrand = "+"
    /\ row.peakStart - row.geneStart = -2000
    /\ label = Return("upstream")

\* C6: a strand other than '+' and '-' makes the classifier fail with
\* InvalidStrandError.
C6_InvalidStrandRaises ==
    (pc = "classified" /\ row.geneStrand \notin {"+", "-"}) =>
        label.raised = "InvalidStrandError"

-----------------------------------------------------------------------------
(***************************************************************************)
(* Properties of map_peaks (SpecMapPeaks)                                  *)
(***************************************************************************)

\* The intervals of the given kind that the genome index holds under the
\* chromosome of peak row p and that overlap the peak.
GenomeOverlaps(p, kind) ==
    LET genome == mp_args.garnet_file.genome
    IN  IF p.chrom \in DOMAIN genome
        THEN {iv \in genome[p.chrom] :
                 /\ iv.data.kind = kind
                 /\ iv.begin < p.peakEnd /\ p.peakStart < iv.end}
        ELSE {}

\* The number of rows of a returned result set that carry peak row p.
RowsCarrying(result, p) ==
    IF result.raised = "none"
    THEN Cardinality({k \in DOMAIN result.value :
                         result.value[k].peakName = p.peakName})
    ELSE 0

\* C1: map_peaks on one peaks source returns, for every peak of the source,
\* as many rows carrying the peak as (genes of the genome index overlapping
\* the peak) times (motifs overlapping the peak).
C1_JoinCardinality ==
    (pc = "mapped" /\ mp_args.garnet_file.loadable /\ mp_args.peaks.kind = "str") =>
        \A i \in DOMAIN mp_args.peaks.file :
            RowsCarrying(mp_result, mp_args.peaks.file[i]) =
                Cardinality(GenomeOverlaps(mp_args.peaks.file[i], "gene"))
                * Cardinality(GenomeOverlaps(mp_args.peaks.file[i], "motif"))

\* C9: map_peaks returns; given a list of n sources (n >= 1, n = 1 included)
\* it returns n result sets, given a single source that source's result set.
C9_OneResultSetPerSource ==
    (pc = "mapped" /\ mp_args.garnet_file.loadable
       /\ (mp_args.peaks.kind = "list" => Len(mp_args.peaks.files) >= 1)) =>
        /\ mp_result.raised = "none"
        /\ mp_args.peaks.kind = "list" =>
              Len(mp_result.value) = Len(mp_args.peaks.files)

-----------------------------------------------------------------------------
(***************************************************************************)
(* Properties of TF_regression (SpecRegression)                            *)
(***************************************************************************)

\* The rows of factor t after the expression join and duplicate removal.
Observations(t) ==
    LET groups == expression_profiles(tf_args.df, tf_args.expression_file)
    IN  IF \E k \in DOMAIN groups : groups[k].name = t
        THEN (CHOOSE g \in {groups[k] : k \in DOMAIN groups} : g.name = t).profile
        ELSE <<>>

\* The records of factor t in the value TF_regression returned.
RecordsOf(t) ==
    IF tf_result.raised = "none"
    THEN {k \in DOMAIN tf_result.value : tf_result.value[k][1] = t}
    ELSE {}

\* C7: when every fit succeeds, TF_regression returns exactly one record for
\* each factor that has at least 5 observations after the join and duplicate
\* removal, and none for a factor that has fewer.
C7_MinimumSamplePolicy ==
    (pc = "regressed" /\ \A t \in TFNames : tf_args.fit[t] = "ok") =>
        \A t \in TFNames :
            Cardinality(RecordsOf(t)) = IF Len(Observations(t)) >= 5 THEN 1 ELSE 0

\* C8: when the fit of one factor with at least 5 observations fails, every
\* other factor with at least 5 observations whose fit succeeds is still in
\* the output.
C8_FitFailureIsolated ==
    pc = "regressed" =>
        \A t \in TFNames, failing \in TFNames :
            (/\ Len(Observations(failing)) >= 5 /\ tf_args.fit[failing] = "raise"
             /\ Len(Observations(t)) >= 5 /\ tf_args.fit[t] = "ok")
                => RecordsOf(t) # {}

\* The rows of the dataframe that have an expression value, by factor.
JoinedRows(t) ==
    SelectSeq(merge(tf_args.df, tf_args.expression_file), LAMBDA r : r.motifName = t)

\* C10: a factor whose joined rows repeat a (geneSymbol, motifID) under
\* different gene names, and hold at least 5 distinct such pairs, is fitted on
\* a profile that holds each pair exactly once.
C10_DuplicateAliasCollapse ==
    pc = "regressed" =>
        \A t \in TFNames :
            LET joined == JoinedRows(t)
                keys == {<<joined[i].geneSymbol, joined[i].motifID>> : i \in DOMAIN joined}
            IN  (Cardinality(keys) >= 5 /\ Len(joined) > Cardinality(keys)) =>
                    \E k \in DOMAIN tf_result.fits :
                        /\ tf_result.fits[k].name = t
                        /\ Len(tf_result.fits[k].profile) = Cardinality(keys)
                        /\ \A key \in keys :
                              \E i \in DOMAIN tf_result.fits[k].profile :
                                 <<tf_result.fits[k].profile[i].geneSymbol,
                                   tf_result.fits[k].profile[i].motifID>> = key

====
